---- MODULE Spec2Model ----
(***************************************************************************)
(* Number platform for La Marzocco espresso machines                       *)
(* (homeassistant/components/lamarzocco/number.py).                        *)
(*                                                                         *)
(* Numbers (temperatures, durations, ticks) are held in TENTHS of their    *)
(* unit, so that a step of 0.1 is the integer 1 and a step of 1 is the     *)
(* integer 10.  Milliseconds are held as integers.  For every multiple of  *)
(* 0.1 in the declared ranges (0 .. 30 s) Python's int(value * 1000) is    *)
(* exactly 100 times the number of tenths, and int(value) drops the        *)
(* fractional tenths.                                                      *)
(***************************************************************************)
EXTENDS Integers, Sequences, FiniteSets, TLC

VARIABLES model_name, num_keys, current_status, entities, added, tasks, history

vars == <<model_name, num_keys, current_status, entities, added, tasks, history>>

\* ------------------------------------------------------------------ bounds
MaxKeys == 2
MaxTasks == 2
MaxSteps == 1

\* --------------------------------------------------------------- constants
PRECISION_TENTHS == 1
PRECISION_WHOLE == 10

GS3_AV == "GS3_AV"
GS3_MP == "GS3_MP"
LaMarzoccoModel == {GS3_AV, GS3_MP, "LINEA_MINI", "LINEA_MICRA"}

Min(a, b) == IF a < b THEN a ELSE b

\* int(x) of a number held in tenths: the fractional tenths are dropped.
IntOf(x) == (x \div 10) * 10

\* int(value * 1000): seconds (in tenths) to whole milliseconds.
Millis(value) == value * 100

\* ms / 1000: milliseconds to seconds (in tenths), as the stub client stores it.
Seconds(ms) == ms \div 100

\* A status field name: f"{prefix}{key}" for the per-key fields, key 0 for the
\* fields that have no key.
Field(prefix, key) == <<prefix, key>>

\* ----------------------------------------------------------- SDK requests
Request(method, value, on_time, off_time, key, has_on_time) ==
  [method |-> method, value |-> value, on_time |-> on_time,
   off_time |-> off_time, key |-> key, has_on_time |-> has_on_time]

NoRequest == Request("none", 0, 0, 0, 0, FALSE)

\* ------------------------------------------------------ composite setters
_set_prebrew_on_lost(lm, value, key) ==
  Request("configure_prebrew", 0, Millis(value), Millis(value), key, TRUE)

_set_prebrew_on(lm, value, key) ==
  Request("configure_prebrew", 0,
          Millis(value),
          Millis(lm[Field("prebrewing_toff_k", key)]),
          key, TRUE)

_set_prebrew_off_wrong_key(lm, value, key) ==
  Request("configure_prebrew", 0,
          Millis(lm[Field("prebrewing_ton_k", 1)]),
          Millis(value),
          key, TRUE)

_set_prebrew_off(lm, value, key) ==
  Request("configure_prebrew", 0,
          Millis(lm[Field("prebrewing_ton_k", key)]),
          Millis(value),
          key, TRUE)

_set_preinfusion(lm, value, key) ==
  Request("configure_prebrew", 0, 0, Millis(value), key, FALSE)

\* -------------------------------------------------------- descriptor table
\* supported_fn / available_fn of LaMarzoccoEntityDescription when a
\* descriptor does not declare one.
DEFAULT == "DEFAULT"

Description(key, step, min, max, set_fn, value_field, available, supported) ==
  [key |-> key, translation_key |-> key, native_step |-> step,
   native_min_value |-> min, native_max_value |-> max,
   set_value_fn |-> set_fn, native_value_fn |-> value_field,
   available_fn |-> available, supported_fn |-> supported]

ENTITIES ==
  << Description("coffee_temp", PRECISION_TENTHS, 850, 1040,
                 "set_coffee_temp", "coffee_set_temp", DEFAULT, DEFAULT),
     Description("steam_temp", PRECISION_WHOLE, 1260, 1310,
                 "set_steam_temp", "steam_set_temp", DEFAULT, "in_gs3_av_gs3_mp"),
     Description("tea_water_duration", PRECISION_WHOLE, 0, 300,
                 "set_dose_hot_water", "dose_hot_water", DEFAULT, "in_gs3_av_gs3_mp") >>

KEY_ENTITIES_prebrew_on_flag ==
  << Description("prebrew_off", PRECISION_TENTHS, 10, 100,
                 "_set_prebrew_off", "prebrewing_ton_k", "enable_prebrewing", "not_gs3_mp"),
     Description("prebrew_on", PRECISION_TENTHS, 20, 100,
                 "_set_prebrew_on", "prebrewing_toff_k", "enable_preinfusion", "not_gs3_mp"),
     Description("preinfusion_off", PRECISION_TENTHS, 20, 290,
                 "_set_preinfusion", "preinfusion_k", "enable_preinfusion", "not_gs3_mp"),
     Description("dose", PRECISION_WHOLE, 0, 9990,
                 "set_dose", "dose_k", DEFAULT, "is_gs3_av") >>

KEY_ENTITIES ==
  << Description("prebrew_off", PRECISION_TENTHS, 10, 100,
                 "_set_prebrew_off", "prebrewing_ton_k", "enable_prebrewing", "not_gs3_mp"),
     Description("prebrew_on", PRECISION_TENTHS, 20, 100,
                 "_set_prebrew_on", "prebrewing_toff_k", "enable_prebrewing", "not_gs3_mp"),
     Description("preinfusion_off", PRECISION_TENTHS, 20, 290,
                 "_set_preinfusion", "preinfusion_k", "enable_preinfusion", "not_gs3_mp"),
     Description("dose", PRECISION_WHOLE, 0, 9990,
                 "set_dose", "dose_k", DEFAULT, "is_gs3_av") >>

\* description.supported_fn(coordinator)
supported_fn_all(description, model) == TRUE

supported_fn(description, model) ==
  CASE description.supported_fn = "in_gs3_av_gs3_mp" -> model \in {GS3_AV, GS3_MP}
    [] description.supported_fn = "not_gs3_mp" -> model # GS3_MP
    [] description.supported_fn = "is_gs3_av" -> model = GS3_AV
    [] OTHER -> TRUE

\* description.available_fn(lm)
available_fn(description, lm) ==
  IF description.available_fn = DEFAULT
    THEN TRUE
    ELSE lm[Field(description.available_fn, 0)]

\* set_value_fn of a descriptor of ENTITIES: (coordinator, value) -> request
set_value_fn(description, value) ==
  CASE description.set_value_fn = "set_coffee_temp" ->
         Request("set_coffee_temp", value, 0, 0, 0, FALSE)
    [] description.set_value_fn = "set_steam_temp" ->
         Request("set_steam_temp", IntOf(value), 0, 0, 0, FALSE)
    [] description.set_value_fn = "set_dose_hot_water" ->
         Request("set_dose_hot_water", IntOf(value), 0, 0, 0, FALSE)

\* set_value_fn of a descriptor of KEY_ENTITIES: (lm, value, key) -> request
key_set_value_fn(description, lm, value, key) ==
  CASE description.set_value_fn = "_set_prebrew_off" -> _set_prebrew_off(lm, value, key)
    [] description.set_value_fn = "_set_prebrew_on" -> _set_prebrew_on(lm, value, key)
    [] description.set_value_fn = "_set_preinfusion" -> _set_preinfusion(lm, value, key)
    [] description.set_value_fn = "set_dose" ->
         Request("set_dose", IntOf(value), 0, 0, key, FALSE)

\* native_value_fn of a descriptor: the status field it reads
native_value_fn(description, lm, key) == lm[Field(description.native_value_fn, key)]

\* ------------------------------------------------------------- entities
\* unique id of LaMarzoccoEntity: one per descriptor (and device)
BaseUniqueId(description) == description.key

LaMarzoccoNumberEntity(description) ==
  [kind |-> "number", entity_description |-> description, pyhsical_key |-> 0,
   unique_id |-> <<BaseUniqueId(description), "", 0>>,
   translation_key |-> <<description.translation_key, "">>,
   entity_registry_enabled_default |-> TRUE]

LaMarzoccoKeyNumberEntity_no_normalise(description, pyhsical_key) ==
  [kind |-> "key_number", entity_description |-> description,
   pyhsical_key |-> pyhsical_key,
   unique_id |-> <<BaseUniqueId(description), "_key", pyhsical_key>>,
   translation_key |-> <<description.translation_key, "_key">>,
   entity_registry_enabled_default |-> FALSE]

\* LaMarzoccoKeyNumberEntity.__init__
LaMarzoccoKeyNumberEntity(description, pyhsical_key) ==
  IF pyhsical_key = 0
    THEN [kind |-> "key_number", entity_description |-> description,
          pyhsical_key |-> 1,
          unique_id |-> <<BaseUniqueId(description), "", 0>>,
          translation_key |-> <<description.translation_key, "">>,
          entity_registry_enabled_default |-> TRUE]
    ELSE [kind |-> "key_number", entity_description |-> description,
          pyhsical_key |-> pyhsical_key,
          unique_id |-> <<BaseUniqueId(description), "_key", pyhsical_key>>,
          translation_key |-> <<description.translation_key, "_key">>,
          entity_registry_enabled_default |-> FALSE]

\* range(min(num_keys, 1), num_keys + 1) as a sequence
KeyRange_from_zero(n) == [i \in 1..(n + 1) |-> i - 1]

KeyRange_from_one(n) == [i \in 1..n |-> i]

KeyRange(n) == [i \in 1..(n + 1 - Min(n, 1)) |-> Min(n, 1) + i - 1]

\* the entities of one keyed descriptor
KeyEntitiesOf(description, n) ==
  [i \in 1..Len(KeyRange(n)) |-> LaMarzoccoKeyNumberEntity(description, KeyRange(n)[i])]

RECURSIVE KeyEntitiesFrom(_, _, _)
KeyEntitiesFrom(i, model, n) ==
  IF i > Len(KEY_ENTITIES)
    THEN <<>>
    ELSE (IF supported_fn(KEY_ENTITIES[i], model)
            THEN KeyEntitiesOf(KEY_ENTITIES[i], n)
            ELSE <<>>)
         \o KeyEntitiesFrom(i + 1, model, n)

RECURSIVE NumberEntitiesFrom(_, _)
NumberEntitiesFrom(i, model) ==
  IF i > Len(ENTITIES)
    THEN <<>>
    ELSE (IF supported_fn(ENTITIES[i], model)
            THEN <<LaMarzoccoNumberEntity(ENTITIES[i])>>
            ELSE <<>>)
         \o NumberEntitiesFrom(i + 1, model)

\* the list handed to async_add_entities
async_setup_entry(model, n) ==
  NumberEntitiesFrom(1, model) \o KeyEntitiesFrom(1, model, n)

\* native_value of either entity class
native_value(entity, lm) ==
  IF entity.kind = "number"
    THEN native_value_fn(entity.entity_description, lm, 0)
    ELSE native_value_fn(entity.entity_description, lm, entity.pyhsical_key)

\* async_set_native_value up to its await: the request the setter issues
async_set_native_value(entity, lm, value) ==
  IF entity.kind = "number"
    THEN set_value_fn(entity.entity_description, value)
    ELSE key_set_value_fn(entity.entity_description, lm, value, entity.pyhsical_key)

\* async_set_native_value after its await: what happens once the request has
\* returned or raised
after_await_always_write(t, outcome) ==
  IF outcome = "raise"
    THEN << <<t, "raise">>, <<t, "write">> >>
    ELSE << <<t, "return">>, <<t, "write">> >>

after_await(t, outcome) ==
  IF outcome = "raise"
    THEN << <<t, "raise">> >>
    ELSE << <<t, "return">>, <<t, "write">> >>

\* ------------------------------------------------------------ stub client
Keys == 1..(IF MaxKeys < 1 THEN 1 ELSE MaxKeys)

KeyFields == {"prebrewing_ton_k", "prebrewing_toff_k", "preinfusion_k", "dose_k"}

StatusFields ==
  {Field(f, 0) : f \in {"coffee_set_temp", "steam_set_temp", "dose_hot_water",
                        "enable_prebrewing", "enable_preinfusion"}}
    \cup {Field(f, k) : f \in KeyFields, k \in Keys}

\* a snapshot as the coordinator first delivers it
InitialStatus(prebrewing, preinfusion) ==
  [f \in StatusFields |->
     CASE f[1] = "coffee_set_temp" -> 930
       [] f[1] = "steam_set_temp" -> 1280
       [] f[1] = "dose_hot_water" -> 80
       [] f[1] = "enable_prebrewing" -> prebrewing
       [] f[1] = "enable_preinfusion" -> preinfusion
       [] f[1] = "prebrewing_ton_k" -> 30
       [] f[1] = "prebrewing_toff_k" -> 40
       [] f[1] = "preinfusion_k" -> 50
       [] f[1] = "dose_k" -> 1000]

\* on_time the SDK uses when configure_prebrew is called without one
SdkDefaultOnTimes == {0, 5000}

\* a client that stores what it is told
StubStore(lm, request, default_on_time) ==
  CASE request.method = "set_coffee_temp" ->
         [lm EXCEPT ![Field("coffee_set_temp", 0)] = request.value]
    [] request.method = "set_steam_temp" ->
         [lm EXCEPT ![Field("steam_set_temp", 0)] = request.value]
    [] request.method = "set_dose_hot_water" ->
         [lm EXCEPT ![Field("dose_hot_water", 0)] = request.value]
    [] request.method = "set_dose" ->
         [lm EXCEPT ![Field("dose_k", request.key)] = request.value]
    [] request.method = "configure_prebrew" ->
         [lm EXCEPT
            ![Field("prebrewing_ton_k", request.key)] =
               Seconds(IF request.has_on_time THEN request.on_time
                                              ELSE default_on_time),
            ![Field("prebrewing_toff_k", request.key)] = Seconds(request.off_time),
            ![Field("preinfusion_k", request.key)] = Seconds(request.off_time)]

\* values the host framework may hand to async_set_native_value: in range;
\* the first multiples of the step from the minimum and, for whole-step
\* descriptors, one value half a step off
Values(description) ==
  {v \in {description.native_min_value + i * description.native_step : i \in 0..MaxSteps}
        \cup (IF description.native_step = PRECISION_WHOLE
                THEN {description.native_min_value + 5} ELSE {}) :
     v >= description.native_min_value /\ v <= description.native_max_value}

OnStep(description, value) == value % description.native_step = 0

\* ------------------------------------------------------------------ state
Tasks == 1..MaxTasks

IdleTask == [pc |-> "idle", entity |-> 0, value |-> 0, request |-> NoRequest,
             result |-> FALSE]

InitWith(modes) ==
  /\ model_name \in LaMarzoccoModel
  /\ num_keys \in 0..MaxKeys
  /\ \E m \in modes : current_status = InitialStatus(m[1], m[2])
  /\ entities = <<>>
  /\ added = FALSE
  /\ tasks = [t \in Tasks |-> IdleTask]
  /\ history = <<>>

\* a machine in pre-brewing mode
Init == InitWith({<<TRUE, FALSE>>})

\* a machine in any combination of the two mode flags
InitAnyMode == InitWith(BOOLEAN \X BOOLEAN)

\* async_setup_entry: build the entities and hand them to async_add_entities
AsyncSetupEntry ==
  /\ ~added
  /\ entities' = async_setup_entry(model_name, num_keys)
  /\ added' = TRUE
  /\ UNCHANGED <<model_name, num_keys, current_status, tasks, history>>

\* the host calls async_set_native_value(value) on entity i: the setter is
\* evaluated against the current snapshot and its request is awaited
StartSetValue(t, i, value) ==
  /\ added
  /\ tasks[t].pc = "idle"
  /\ t > 1 => tasks[t - 1].pc # "idle"
  /\ tasks' = [tasks EXCEPT ![t] =
                 [pc |-> "awaiting", entity |-> i, value |-> value,
                  request |-> async_set_native_value(entities[i], current_status, value),
                  result |-> FALSE]]
  /\ history' = Append(history, <<t, "call">>)
  /\ UNCHANGED <<model_name, num_keys, current_status, entities, added>>

\* the awaited request returns (ok: the device accepted it and the client
\* stored it); the entity then writes its state
ReturnSetValue(t, ok, default_on_time) ==
  /\ tasks[t].pc = "awaiting"
  /\ current_status' = IF ok THEN StubStore(current_status, tasks[t].request, default_on_time)
                             ELSE current_status
  /\ tasks' = [tasks EXCEPT ![t].pc = "done", ![t].result = ok]
  /\ history' = history \o after_await(t, "return")
  /\ UNCHANGED <<model_name, num_keys, entities, added>>

\* the awaited request raises; the exception leaves async_set_native_value
RaiseSetValue(t) ==
  /\ tasks[t].pc = "awaiting"
  /\ tasks' = [tasks EXCEPT ![t].pc = "raised"]
  /\ history' = history \o after_await(t, "raise")
  /\ UNCHANGED <<model_name, num_keys, current_status, entities, added>>

\* the SDK default only matters to a request that leaves on_time out
DefaultChoices(request) ==
  IF request.method = "configure_prebrew" /\ ~request.has_on_time
    THEN SdkDefaultOnTimes ELSE {0}

\* one set-value call on any entity; the device stores the request (True),
\* refuses it (False), or the request raises
Next ==
  \/ AsyncSetupEntry
  \/ \E i \in DOMAIN entities :
       \E value \in Values(entities[i].entity_description) : StartSetValue(1, i, value)
  \/ \E ok \in BOOLEAN :
       \E d \in DefaultChoices(tasks[1].request) : ReturnSetValue(1, ok, d)
  \/ RaiseSetValue(1)

\* a machine in any mode, one set-value call
Spec == InitAnyMode /\ [][Next]_vars

\* the entities of the two pre-brew descriptors
PrebrewEntities ==
  {i \in DOMAIN entities :
     entities[i].entity_description.set_value_fn \in {"_set_prebrew_on", "_set_prebrew_off"}}

\* set-value calls on the pre-brew entities run as concurrent tasks; every
\* request is stored
NextConcurrent ==
  \/ AsyncSetupEntry
  \/ \E t \in Tasks, i \in PrebrewEntities :
       \E value \in Values(entities[i].entity_description) : StartSetValue(t, i, value)
  \/ \E t \in Tasks :
       \E d \in DefaultChoices(tasks[t].request) : ReturnSetValue(t, TRUE, d)

SpecConcurrent == Init /\ [][NextConcurrent]_vars

\* ---------------------------------------------------------------- helpers
Ent(t) == entities[tasks[t].entity]

Started(t) == tasks[t].pc # "idle"

SetterOf(t) == Ent(t).entity_description.set_value_fn

\* the events of task t, in the order they happened
EventsOf(t) ==
  LET own == SelectSeq(history, LAMBDA e : e[1] = t)
  IN  [i \in DOMAIN own |-> own[i][2]]

Pos(t, kind) == CHOOSE i \in DOMAIN history : history[i] = <<t, kind>>

CountOf(description) ==
  Cardinality({i \in DOMAIN entities : entities[i].entity_description = description})

HasEntity(key) ==
  \E i \in DOMAIN entities : entities[i].entity_description.key = key

KeyDescriptions == {KEY_ENTITIES[j] : j \in DOMAIN KEY_ENTITIES}

ModeFlags == {"enable_prebrewing", "enable_preinfusion"}

\* ------------------------------------------------------------------ claims

\* C1 (as stated): after a set-value call with an in-range multiple v of the
\* step has been stored by the stub client, the entity's native value is v.
C1_RoundTrip ==
  \A t \in Tasks :
    (tasks[t].pc = "done" /\ tasks[t].result
       /\ OnStep(Ent(t).entity_description, tasks[t].value))
      => native_value(Ent(t), current_status) = tasks[t].value

\* C2 (as stated): every supported keyed descriptor has exactly
\* KEYS_PER_MODEL[model] entities, an unsupported one has none.
C2_CountIsNumKeys ==
  added =>
    \A d \in KeyDescriptions :
      CountOf(d) = (IF supported_fn(d, model_name) THEN num_keys ELSE 0)

\* C2 (amended): every supported keyed descriptor has KEYS_PER_MODEL[model]
\* entities, on the physical keys 1 .. KEYS_PER_MODEL[model], except that a
\* key count of 0 gives one entity, on physical key 1; an unsupported one has
\* none.
C2_CountIsNumKeysOrOne ==
  added =>
    \A d \in KeyDescriptions :
      LET own == {i \in DOMAIN entities : entities[i].entity_description = d}
          n == IF num_keys = 0 THEN 1 ELSE num_keys
      IN  IF supported_fn(d, model_name)
            THEN /\ CountOf(d) = n
                 /\ {entities[i].pyhsical_key : i \in own} = 1..n
            ELSE CountOf(d) = 0

C2_Witness ==
  /\ added
  /\ num_keys = 0
  /\ \E d \in KeyDescriptions : CountOf(d) = 1

\* C5: a descriptor has an entity exactly when the model is in its declared
\* model list.
C5_ClaimedModels(key) ==
  CASE key \in {"steam_temp", "tea_water_duration"} -> {"GS3_AV", "GS3_MP"}
    [] key = "dose" -> {"GS3_AV"}
    [] key \in {"prebrew_on", "prebrew_off", "preinfusion_off"} ->
         {"GS3_AV", "LINEA_MINI", "LINEA_MICRA"}

C5_SupportedIffDeclared ==
  added =>
    \A key \in {"steam_temp", "tea_water_duration", "dose",
                "prebrew_on", "prebrew_off", "preinfusion_off"} :
      HasEntity(key) <=> model_name \in C5_ClaimedModels(key)

C5_Witness ==
  /\ added
  /\ model_name = "GS3_MP"
  /\ HasEntity("steam_temp")
  /\ ~HasEntity("prebrew_on")

\* C6: a keyed entity built for key index 0 works on physical key 1 and keeps
\* the base unique id, the base translation key and its default enablement;
\* one built for key index k > 0 works on key k, has the id <base>_key<k>, the
\* translation key <translation_key>_key and is disabled by default.  Every
\* request of a keyed entity carries its physical key, which is never 0.
C6_KeyEntityOf(i) ==
  LET e == entities[i]
      d == e.entity_description
  IN  IF num_keys = 0
        THEN /\ e.pyhsical_key = 1
             /\ e.unique_id = <<d.key, "", 0>>
             /\ e.translation_key = <<d.translation_key, "">>
             /\ e.entity_registry_enabled_default
        ELSE /\ e.pyhsical_key \in 1..num_keys
             /\ e.unique_id = <<d.key, "_key", e.pyhsical_key>>
             /\ e.translation_key = <<d.translation_key, "_key">>
             /\ ~e.entity_registry_enabled_default

C6_KeyNormalised ==
  /\ \A i \in DOMAIN entities :
       entities[i].kind = "key_number" => C6_KeyEntityOf(i)
  /\ \A t \in Tasks :
       (Started(t) /\ Ent(t).kind = "key_number") =>
         /\ tasks[t].request.key = Ent(t).pyhsical_key
         /\ tasks[t].request.key # 0

C6_Witness ==
  /\ num_keys = 0
  /\ \E t \in Tasks :
       /\ tasks[t].pc = "done"
       /\ Ent(t).kind = "key_number"
       /\ tasks[t].request.key = 1

\* C10: the entities of one setup have pairwise distinct (descriptor, unique
\* id) identities, and the entities of one keyed descriptor have pairwise
\* distinct physical keys.
C10_DistinctEntities ==
  \A i, j \in DOMAIN entities :
    i # j =>
      /\ <<entities[i].entity_description.key, entities[i].unique_id>>
           # <<entities[j].entity_description.key, entities[j].unique_id>>
      /\ entities[i].unique_id # entities[j].unique_id
      /\ (entities[i].kind = "key_number"
            /\ entities[i].entity_description = entities[j].entity_description)
           => entities[i].pyhsical_key # entities[j].pyhsical_key

C10_Witness ==
  /\ added
  /\ num_keys >= 2
  /\ \E i, j \in DOMAIN entities :
       /\ i # j
       /\ entities[i].entity_description.key = "dose"
       /\ entities[j].entity_description.key = "dose"

\* C8 (as stated): every keyed descriptor declares an available predicate
\* that is one of the mode flags of the snapshot, dose included.
C8_EveryKeyedGated ==
  \A i \in DOMAIN entities :
    entities[i].kind = "key_number" =>
      /\ entities[i].entity_description.available_fn \in ModeFlags
      /\ available_fn(entities[i].entity_description, current_status)
           = current_status[Field(entities[i].entity_description.available_fn, 0)]

\* C8 (amended): prebrew_on and prebrew_off are available exactly when
\* enable_prebrewing is set, preinfusion_off exactly when enable_preinfusion
\* is set; dose declares no available predicate of its own.
C8_GatedExceptDose ==
  \A i \in DOMAIN entities :
    LET d == entities[i].entity_description
    IN  /\ d.key \in {"prebrew_on", "prebrew_off"} =>
             available_fn(d, current_status)
               = current_status[Field("enable_prebrewing", 0)]
        /\ d.key = "preinfusion_off" =>
             available_fn(d, current_status)
               = current_status[Field("enable_preinfusion", 0)]
        /\ d.key = "dose" => d.available_fn \notin ModeFlags

C8_Witness ==
  /\ HasEntity("dose")
  /\ HasEntity("prebrew_on")
  /\ ~current_status[Field("enable_prebrewing", 0)]
  /\ current_status[Field("enable_preinfusion", 0)]

\* C4: a set-value call issues exactly one request; the state is written
\* once, after the request has returned; when the request raises, nothing
\* more happens: no second request and no state write.
C4_OneCallThenWrite ==
  \A t \in Tasks :
    EventsOf(t) =
      CASE tasks[t].pc = "idle" -> <<>>
        [] tasks[t].pc = "awaiting" -> <<"call">>
        [] tasks[t].pc = "done" -> <<"call", "return", "write">>
        [] tasks[t].pc = "raised" -> <<"call", "raise">>

C4_Witness ==
  /\ tasks[1].pc = "raised"
  /\ Ent(1).kind = "key_number"
  /\ history = << <<1, "call">>, <<1, "raise">> >>

\* C7 (as stated): a request of _set_prebrew_on, _set_prebrew_off or
\* _set_preinfusion is one configure_prebrew call that carries both an
\* on-time and an off-time, one of them the value of the paired status field
\* of the same key as read when the call was made.
C7_CompositePassesBoth ==
  [][\A t \in Tasks :
       (tasks[t].pc = "idle" /\ tasks'[t].pc = "awaiting"
          /\ entities[tasks'[t].entity].entity_description.set_value_fn
               \in {"_set_prebrew_on", "_set_prebrew_off", "_set_preinfusion"})
         => LET r == tasks'[t].request
                k == entities[tasks'[t].entity].pyhsical_key
            IN  /\ r.method = "configure_prebrew"
                /\ r.has_on_time
                /\ \/ r.on_time = 100 * current_status[Field("prebrewing_ton_k", k)]
                   \/ r.off_time = 100 * current_status[Field("prebrewing_toff_k", k)]]_vars

\* C3: _set_prebrew_on issues one configure_prebrew request with the key, the
\* new on-time and the off-time of that key as the snapshot has it;
\* _set_prebrew_off the same with the sides exchanged.  When the request is
\* stored, the other side holds what was read and no field of another key
\* changes.
C3_RequestOf(t) ==
  LET e == entities[tasks'[t].entity]
      k == e.pyhsical_key
      v == tasks'[t].value
      r == tasks'[t].request
  IN  /\ e.entity_description.set_value_fn = "_set_prebrew_on" =>
           r = [method |-> "configure_prebrew", value |-> 0, key |-> k,
                has_on_time |-> TRUE, on_time |-> v * 100,
                off_time |-> 100 * current_status[Field("prebrewing_toff_k", k)]]
      /\ e.entity_description.set_value_fn = "_set_prebrew_off" =>
           r = [method |-> "configure_prebrew", value |-> 0, key |-> k,
                has_on_time |-> TRUE, off_time |-> v * 100,
                on_time |-> 100 * current_status[Field("prebrewing_ton_k", k)]]

C3_StoredBy(t) ==
  LET k == Ent(t).pyhsical_key
      r == tasks[t].request
  IN  /\ \A f \in StatusFields :
           (f[2] # k) => current_status'[f] = current_status[f]
      /\ 100 * current_status'[Field("prebrewing_ton_k", k)] = r.on_time
      /\ 100 * current_status'[Field("prebrewing_toff_k", k)] = r.off_time

C3_PrebrewFrame ==
  [][\A t \in Tasks :
       /\ (tasks[t].pc = "idle" /\ tasks'[t].pc = "awaiting") => C3_RequestOf(t)
       /\ (tasks[t].pc = "awaiting" /\ tasks'[t].pc = "done"
             /\ SetterOf(t) \in {"_set_prebrew_on", "_set_prebrew_off"})
            => C3_StoredBy(t)
       /\ tasks'[t].pc # "idle" =>
            Cardinality({i \in DOMAIN history' : history'[i] = <<t, "call">>}) = 1]_vars

C3_Witness ==
  \E t \in Tasks :
    /\ tasks[t].pc = "done"
    /\ SetterOf(t) = "_set_prebrew_off"
    /\ Ent(t).pyhsical_key = 2
    /\ current_status[Field("prebrewing_ton_k", 1)]
         # current_status[Field("prebrewing_ton_k", 2)]
    /\ tasks[t].request.on_time = 100 * current_status[Field("prebrewing_ton_k", 2)]

\* C9: a prebrew_on call with value a and a prebrew_off call with value b on
\* the same key, both stored, no other stored request on that key.
C9_Pair(t1, t2) ==
  /\ t1 # t2
  /\ tasks[t1].pc = "done" /\ tasks[t1].result
  /\ tasks[t2].pc = "done" /\ tasks[t2].result
  /\ SetterOf(t1) = "_set_prebrew_on"
  /\ SetterOf(t2) = "_set_prebrew_off"
  /\ Ent(t1).pyhsical_key = Ent(t2).pyhsical_key
  /\ \A t3 \in Tasks \ {t1, t2} :
       tasks[t3].pc = "done" => tasks[t3].request.key # Ent(t1).pyhsical_key

C9_Ends(t1, t2) ==
  /\ current_status[Field("prebrewing_ton_k", Ent(t1).pyhsical_key)] = tasks[t1].value
  /\ current_status[Field("prebrewing_toff_k", Ent(t1).pyhsical_key)] = tasks[t2].value

\* the one call returned before the other was made
C9_Sequential(t1, t2) ==
  \/ Pos(t1, "return") < Pos(t2, "call")
  \/ Pos(t2, "return") < Pos(t1, "call")

\* C9 (as stated): under every interleaving the device ends with on-time a
\* and off-time b.
C9_NoLostUpdate ==
  \A t1, t2 \in Tasks : C9_Pair(t1, t2) => C9_Ends(t1, t2)

\* C9 (amended): when the two calls do not overlap, the device ends with
\* on-time a and off-time b.
C9_NoLostUpdateSequential ==
  \A t1, t2 \in Tasks :
    (C9_Pair(t1, t2) /\ C9_Sequential(t1, t2)) => C9_Ends(t1, t2)

C9_Witness ==
  \E t1, t2 \in Tasks :
    /\ C9_Pair(t1, t2)
    /\ C9_Sequential(t1, t2)
    /\ tasks[t1].value # tasks[t2].value
    /\ tasks[t1].value # 30
    /\ tasks[t2].value # 40

====
